---- MODULE Spec2Model ----
(***************************************************************************)
(* pytype/blocks/blocks.py: ordering of bytecode into basic blocks.        *)
(*                                                                         *)
(* An instruction is identified by its position in the bytecode of its     *)
(* code object (1-based); None is 0.  op.next is the instruction that      *)
(* follows in the sequence, None after the last one.                       *)
(***************************************************************************)
EXTENDS Integers, Sequences, FiniteSets, TLC

\* ------------------------------------------------------------------ bounds
MaxLen == 3

StackLen == 4

TryLen == 5

MaxUnits == 3

MaxConsts == 2

MaxNames == 2

None == 0

\* -------------------------------------------------------- instruction model
\* Opcode classes the code tests with isinstance, and one representative of
\* every other combination of flags.
PlainKinds == {"OP", "RETURN_VALUE", "POP_BLOCK", "RAISE_VARARGS", "BREAK_LOOP"}

TargetKinds == {"JUMP", "CJUMP", "SETUP_FINALLY", "SETUP_LOOP"}

\* The instructions of a bytecode of n instructions: those of the kinds in
\* plain have no target, those of the kinds in targeted have any one.
InstrOf(plain, targeted, n) ==
  [kind : plain, target : {None}] \cup [kind : targeted, target : 1..n]

Instr(n) == InstrOf(PlainKinds, TargetKinds, n)

Bytecodes(n) == [1..n -> Instr(n)]

\* Bytecodes of StackLen instructions made of the instructions that open,
\* close and leave block contexts.
StackBytecodes ==
  [1..StackLen -> InstrOf({"POP_BLOCK", "BREAK_LOOP", "RAISE_VARARGS", "RETURN_VALUE"},
                          {"SETUP_FINALLY", "SETUP_LOOP"}, StackLen)]

\* Bytecodes of TryLen instructions that open with a SETUP_FINALLY, the rest
\* a try body and handler: branches, returns and POP_BLOCK.
TryBytecodes ==
  {[i \in 1..TryLen |-> IF i = 1 THEN [kind |-> "SETUP_FINALLY", target |-> h] ELSE rest[i]] :
     h \in 2..TryLen,
     rest \in [2..TryLen -> InstrOf({"OP", "RETURN_VALUE", "POP_BLOCK"}, {"CJUMP"}, TryLen)]}

does_jump(op) == op.kind \in {"JUMP", "CJUMP", "RETURN_VALUE", "RAISE_VARARGS", "BREAK_LOOP"}

no_next(op) == op.kind \in {"JUMP", "RETURN_VALUE", "RAISE_VARARGS", "BREAK_LOOP"}

pops_block(op) == op.kind = "POP_BLOCK"

pushes_block(op) == op.kind \in {"SETUP_FINALLY", "SETUP_LOOP"}

next_op(bc, i) == IF i < Len(bc) THEN i + 1 ELSE None

VARIABLES
  codes,         \* the code objects of the module: co_code, co_consts, co_flags
  unit,          \* the code object that order_code is working on
  pending,       \* pyc.visit: the code objects still to be visited
  graph,         \* BlockGraph.graph: first opcode -> OrderedCode
  ordered,       \* the OrderedCode objects built so far, by code object
  answer,        \* the last call on an OrderedCode and what it returned
  prev_run,      \* the result of an earlier order_code on the same bytecode
  pc,            \* "resolve", "compute", "ordered" or "failed"
  failure,       \* the message of the assertion or exception that ended the run
  todo,          \* add_pop_block_targets: the worklist of (op, block_stack)
  seen,          \* add_pop_block_targets: the instructions already resolved
  block_target,  \* op.block_target of every instruction
  cur,           \* add_pop_block_targets: op and block_stack of the last iteration
  first_stack,   \* the block_stack with which each instruction was taken first
  blocks,        \* compute_order: the blocks of _split_bytecode
  outgoing,      \* Block.outgoing, by block id
  incoming,      \* Block.incoming, by block id
  order,         \* the block order returned by compute_order
  back_edges     \* the edges order_nodes met leading into its traversal stack

vars == <<codes, unit, pending, graph, ordered, answer, prev_run, pc, failure,
          todo, seen, block_target, cur, first_stack, blocks, outgoing,
          incoming, order, back_edges>>

\* What add_pop_block_targets and compute_order only read.
moduleVars == <<codes, unit, pending, graph, ordered, answer, prev_run>>

\* code.co_code of the code object at hand.
bytecode == codes[unit].co_code

\* first_stack of an instruction the loop has not taken.
NotSeen == <<None>>

NoCur == [op |-> None, entry_stack |-> <<>>, block_stack |-> <<>>, fresh |-> FALSE]

\* ------------------------------------------------- add_pop_block_targets
Front(s) == SubSeq(s, 1, Len(s) - 1)

Top(s) == s[Len(s)]

Entry(op, block_stack) == [op |-> op, block_stack |-> block_stack]

\* todo.pop(): the position of the entry taken from the worklist.
TodoPopAny(q) == 1..Len(q)

TodoPop(q) == {Len(q)}

Without(q, k) == SubSeq(q, 1, k - 1) \o SubSeq(q, k + 1, Len(q))

\* The positions of the block stack holding an instruction of the kind,
\* innermost last.
StackOf(bc, block_stack, kind) ==
  {i \in 1..Len(block_stack) : bc[block_stack[i]].kind = kind}

Max(S) == CHOOSE x \in S : \A y \in S : y <= x

Min(S) == CHOOSE x \in S : \A y \in S : x <= y

\* What one branch of the loop body leaves: the block targets, the block
\* stack, the entries appended to todo and the failed assertion, if any.
Branch(bt, block_stack, push, fail) ==
  [bt |-> bt, block_stack |-> block_stack, push |-> push, fail |-> fail]

\* isinstance(op, opcodes.POP_BLOCK)
PopBlockOutermost(bc, bt, op, block_stack) ==
  IF block_stack = <<>>
  THEN Branch(bt, block_stack, <<>>, "POP_BLOCK without block.")
  ELSE Branch([bt EXCEPT ![op] = bc[block_stack[1]].target], Tail(block_stack), <<>>, "")

PopBlock(bc, bt, op, block_stack) ==
  IF block_stack = <<>>
  THEN Branch(bt, block_stack, <<>>, "POP_BLOCK without block.")
  ELSE Branch([bt EXCEPT ![op] = bc[Top(block_stack)].target], Front(block_stack), <<>>, "")

\* isinstance(op, opcodes.RAISE_VARARGS)
RaiseVarargsOutermost(bc, bt, op, block_stack) ==
  LET handlers == StackOf(bc, block_stack, "SETUP_FINALLY")
  IN  IF handlers = {}
      THEN Branch(bt, block_stack, <<>>, "")
      ELSE Branch([bt EXCEPT ![op] = bc[block_stack[Min(handlers)]].target],
                  block_stack, <<>>, "")

RaiseVarargs(bc, bt, op, block_stack) ==
  LET handlers == StackOf(bc, block_stack, "SETUP_FINALLY")
  IN  IF handlers = {}
      THEN Branch(bt, block_stack, <<>>, "")
      ELSE Branch([bt EXCEPT ![op] = bc[block_stack[Max(handlers)]].target],
                  block_stack, <<>>, "")

\* isinstance(op, opcodes.BREAK_LOOP)
BreakLoopAsserts(bc, bt, op, block_stack) ==
  LET loops == StackOf(bc, block_stack, "SETUP_LOOP")
      i == Max(loops)
      t == bc[block_stack[i]].target
  IN  IF loops = {}
      THEN Branch(bt, block_stack, <<>>, "BREAK_LOOP without loop.")
      ELSE IF t = op
      THEN Branch([bt EXCEPT ![op] = t], block_stack, <<>>, "assert b.target != op")
      ELSE Branch([bt EXCEPT ![op] = t], block_stack,
                  <<Entry(t, SubSeq(block_stack, 1, i - 1))>>, "")

BreakLoopOutermost(bc, bt, op, block_stack) ==
  LET loops == StackOf(bc, block_stack, "SETUP_LOOP")
      i == Min(loops)
      t == bc[block_stack[i]].target
  IN  IF loops = {}
      THEN Branch(bt, block_stack, <<>>, "")
      ELSE IF t = op
      THEN Branch([bt EXCEPT ![op] = t], block_stack, <<>>, "assert b.target != op")
      ELSE Branch([bt EXCEPT ![op] = t], block_stack,
                  <<Entry(t, SubSeq(block_stack, 1, i - 1))>>, "")

BreakLoop(bc, bt, op, block_stack) ==
  LET loops == StackOf(bc, block_stack, "SETUP_LOOP")
      i == Max(loops)
      t == bc[block_stack[i]].target
  IN  IF loops = {}
      THEN Branch(bt, block_stack, <<>>, "")
      ELSE IF t = op
      THEN Branch([bt EXCEPT ![op] = t], block_stack, <<>>, "assert b.target != op")
      ELSE Branch([bt EXCEPT ![op] = t], block_stack,
                  <<Entry(t, SubSeq(block_stack, 1, i - 1))>>, "")

\* isinstance(op, setup_except_op)
SetupExcept(bc, bt, op, block_stack) ==
  Branch(bt, Append(block_stack, op), <<Entry(bc[op].target, block_stack)>>, "")

\* op.pushes_block()
PushesBlock(bc, bt, op, block_stack) ==
  IF bc[op].target = None
  THEN Branch(bt, block_stack, <<>>, "without target")
  ELSE Branch(bt, Append(block_stack, op), <<>>, "")

\* op.does_jump() and op.target
Jump(bc, bt, op, block_stack) ==
  Branch(bt, block_stack, <<Entry(bc[op].target, block_stack)>>, "")

\* none of the branches
Plain(bc, bt, op, block_stack) == Branch(bt, block_stack, <<>>, "")

\* if not op.no_next(): the entry for op.next, or the failed assertion.
FallThrough(bc, op, r) ==
  IF r.fail # ""
  THEN r
  ELSE IF no_next(bc[op])
  THEN r
  ELSE IF next_op(bc, op) = None
  THEN [r EXCEPT !.fail = "Bad instruction at end of bytecode"]
  ELSE [r EXCEPT !.push = Append(@, Entry(next_op(bc, op), r.block_stack))]

\* One iteration of `while todo` on an instruction not seen before, with the
\* branch its class selects.
Iterate(k, r0) ==
  LET e == todo[k]
      r == FallThrough(bytecode, e.op, r0)
  IN  /\ seen' = seen \cup {e.op}
      /\ block_target' = r.bt
      /\ todo' = Without(todo, k) \o r.push
      /\ cur' = [op |-> e.op, entry_stack |-> e.block_stack,
                 block_stack |-> r.block_stack, fresh |-> TRUE]
      /\ first_stack' = [first_stack EXCEPT ![e.op] = e.block_stack]
      /\ failure' = r.fail
      /\ pc' = IF r.fail # "" THEN "failed"
               ELSE IF todo' = <<>> THEN "compute" ELSE "resolve"
      /\ UNCHANGED <<moduleVars, blocks, outgoing, incoming, order, back_edges>>

\* The branch of the if/elif chain that an instruction takes.
WhichBranch(op) ==
  IF op.kind = "POP_BLOCK" THEN "POP_BLOCK"
  ELSE IF op.kind = "RAISE_VARARGS" THEN "RAISE_VARARGS"
  ELSE IF op.kind = "BREAK_LOOP" THEN "BREAK_LOOP"
  ELSE IF op.kind = "SETUP_FINALLY" THEN "setup_except_op"
  ELSE IF pushes_block(op) THEN "pushes_block"
  ELSE IF does_jump(op) /\ op.target # None THEN "does_jump"
  ELSE "plain"

Fresh(k, branch) ==
  /\ pc = "resolve"
  /\ todo[k].op \notin seen
  /\ WhichBranch(bytecode[todo[k].op]) = branch

ResolveSeen ==
  \E k \in TodoPop(todo) :
    /\ pc = "resolve"
    /\ todo[k].op \in seen
    /\ todo' = Without(todo, k)
    /\ cur' = [op |-> todo[k].op, entry_stack |-> todo[k].block_stack,
               block_stack |-> todo[k].block_stack, fresh |-> FALSE]
    /\ pc' = IF todo' = <<>> THEN "compute" ELSE "resolve"
    /\ UNCHANGED <<moduleVars, failure, seen, block_target, first_stack, blocks,
                   outgoing, incoming, order, back_edges>>

ResolvePopBlock ==
  \E k \in TodoPop(todo) :
    /\ Fresh(k, "POP_BLOCK")
    /\ Iterate(k, PopBlock(bytecode, block_target, todo[k].op, todo[k].block_stack))

ResolveRaiseVarargs ==
  \E k \in TodoPop(todo) :
    /\ Fresh(k, "RAISE_VARARGS")
    /\ Iterate(k, RaiseVarargs(bytecode, block_target, todo[k].op, todo[k].block_stack))

ResolveBreakLoop ==
  \E k \in TodoPop(todo) :
    /\ Fresh(k, "BREAK_LOOP")
    /\ Iterate(k, BreakLoop(bytecode, block_target, todo[k].op, todo[k].block_stack))

ResolveSetupExcept ==
  \E k \in TodoPop(todo) :
    /\ Fresh(k, "setup_except_op")
    /\ Iterate(k, SetupExcept(bytecode, block_target, todo[k].op, todo[k].block_stack))

ResolvePushesBlock ==
  \E k \in TodoPop(todo) :
    /\ Fresh(k, "pushes_block")
    /\ Iterate(k, PushesBlock(bytecode, block_target, todo[k].op, todo[k].block_stack))

ResolveJump ==
  \E k \in TodoPop(todo) :
    /\ Fresh(k, "does_jump")
    /\ Iterate(k, Jump(bytecode, block_target, todo[k].op, todo[k].block_stack))

ResolvePlain ==
  \E k \in TodoPop(todo) :
    /\ Fresh(k, "plain")
    /\ Iterate(k, Plain(bytecode, block_target, todo[k].op, todo[k].block_stack))

Resolve ==
  \/ ResolveSeen
  \/ ResolvePopBlock
  \/ ResolveRaiseVarargs
  \/ ResolveBreakLoop
  \/ ResolveSetupExcept
  \/ ResolvePushesBlock
  \/ ResolveJump
  \/ ResolvePlain

\* --------------------------------------------------------- _split_bytecode
\* targets = {op.target for op in bytecode if op.target}
Targets(bc) == {bc[i].target : i \in {j \in 1..Len(bc) : bc[j].target # None}}

\* The condition that closes the current block after instruction i.
ClosesIgnoringTargets(bc, i) ==
  \/ no_next(bc[i])
  \/ does_jump(bc[i])
  \/ pops_block(bc[i])
  \/ next_op(bc, i) = None

ClosesIgnoringEnd(bc, i) ==
  \/ no_next(bc[i])
  \/ does_jump(bc[i])
  \/ pops_block(bc[i])
  \/ (i < Len(bc) /\ i + 1 \in Targets(bc))

Closes(bc, i) ==
  \/ no_next(bc[i])
  \/ does_jump(bc[i])
  \/ pops_block(bc[i])
  \/ next_op(bc, i) = None
  \/ next_op(bc, i) \in Targets(bc)

\* The loop over bytecode from instruction i on: bs the blocks appended so
\* far, code the instructions of the block being built.
RECURSIVE SplitFrom(_, _, _, _)
SplitFrom(bc, i, bs, code) ==
  IF i > Len(bc)
  THEN bs
  ELSE IF Closes(bc, i)
  THEN SplitFrom(bc, i + 1, Append(bs, Append(code, i)), <<>>)
  ELSE SplitFrom(bc, i + 1, bs, Append(code, i))

split_bytecode(bc) == SplitFrom(bc, 1, <<>>, <<>>)

\* ------------------------------------------------------------ compute_order
\* Block.id: the index of the first instruction of the block.
BlockId(b) == b[1]

BlockIds(bs) == {BlockId(bs[i]) : i \in 1..Len(bs)}

\* Block.__init__ of every block: no edge yet.
NoEdges(bs) ==
  [outgoing |-> [b \in BlockIds(bs) |-> {}], incoming |-> [b \in BlockIds(bs) |-> {}],
   fail |-> ""]

\* Block.connect_outgoing(target)
connect_outgoing(g, self, target) ==
  [g EXCEPT !.outgoing[self] = @ \cup {target}, !.incoming[target] = @ \cup {self}]

\* block.connect_outgoing(first_op_to_block[op]) when op is not None; the
\* lookup raises KeyError when op starts no block.
ConnectTo(g, bs, self, op) ==
  IF op = None \/ g.fail # ""
  THEN g
  ELSE IF op \in BlockIds(bs)
  THEN connect_outgoing(g, self, op)
  ELSE [g EXCEPT !.fail = "KeyError"]

\* The body of the loop over blocks, for the block at position i.
ConnectBlockLastOnly(bc, bt, bs, g, i) ==
  LET block == bs[i]
      last_op == block[Len(block)]
      g1 == IF i < Len(bs) /\ ~no_next(bc[last_op])
            THEN connect_outgoing(g, BlockId(block), BlockId(bs[i + 1]))
            ELSE g
      g3 == ConnectTo(g1, bs, BlockId(block), bc[last_op].target)
  IN  ConnectTo(g3, bs, BlockId(block), bt[last_op])

ConnectBlockNoBlockTarget(bc, bt, bs, g, i) ==
  LET block == bs[i]
      first_op == block[1]
      last_op == block[Len(block)]
      g1 == IF i < Len(bs) /\ ~no_next(bc[last_op])
            THEN connect_outgoing(g, BlockId(block), BlockId(bs[i + 1]))
            ELSE g
      g2 == ConnectTo(g1, bs, BlockId(block), bc[first_op].target)
  IN  ConnectTo(g2, bs, BlockId(block), bc[last_op].target)

ConnectBlock(bc, bt, bs, g, i) ==
  LET block == bs[i]
      first_op == block[1]
      last_op == block[Len(block)]
      g1 == IF i < Len(bs) /\ ~no_next(bc[last_op])
            THEN connect_outgoing(g, BlockId(block), BlockId(bs[i + 1]))
            ELSE g
      g2 == ConnectTo(g1, bs, BlockId(block), bc[first_op].target)
      g3 == ConnectTo(g2, bs, BlockId(block), bc[last_op].target)
  IN  ConnectTo(g3, bs, BlockId(block), bt[last_op])

RECURSIVE ConnectFrom(_, _, _, _, _)
ConnectFrom(bc, bt, bs, g, i) ==
  IF i > Len(bs) \/ g.fail # ""
  THEN g
  ELSE ConnectFrom(bc, bt, bs, ConnectBlock(bc, bt, bs, g, i), i + 1)

\* cfg_utils.order_nodes: depth-first from the first block, the outgoing
\* edges of a block taken in ascending id, a block prepended to the order
\* when it is completed.
RECURSIVE Visit(_, _, _)
RECURSIVE VisitOutgoing(_, _, _, _)
Visit(out, n, st) ==
  LET st1 == [st EXCEPT !.visited = @ \cup {n}, !.stack = @ \cup {n}]
      st2 == VisitOutgoing(out, n, out[n], st1)
  IN  [st2 EXCEPT !.stack = @ \ {n}, !.order = <<n>> \o @]

VisitOutgoing(out, n, rest, st) ==
  IF rest = {}
  THEN st
  ELSE LET m == Min(rest)
           st1 == IF m \in st.stack
                  THEN [st EXCEPT !.back = @ \cup {<<n, m>>}]
                  ELSE IF m \in st.visited THEN st
                  ELSE Visit(out, m, st)
       IN  VisitOutgoing(out, n, rest \ {m}, st1)

order_nodes(bs, out) ==
  IF bs = <<>>
  THEN [visited |-> {}, stack |-> {}, order |-> <<>>, back |-> {}]
  ELSE Visit(out, BlockId(bs[1]), [visited |-> {}, stack |-> {}, order |-> <<>>, back |-> {}])

\* The blocks handed to order_nodes, whose first is the root.
NodesWithoutEntry(bs) == IF Len(bs) > 1 THEN Tail(bs) ELSE bs

Nodes(bs) == bs

compute_order ==
  /\ pc = "compute"
  /\ LET bs == split_bytecode(bytecode)
         g == ConnectFrom(bytecode, block_target, bs, NoEdges(bs), 1)
         o == order_nodes(Nodes(bs), g.outgoing)
     IN  /\ blocks' = bs
         /\ outgoing' = g.outgoing
         /\ incoming' = g.incoming
         /\ failure' = g.fail
         /\ IF g.fail # ""
            THEN pc' = "failed" /\ order' = <<>> /\ back_edges' = {}
            ELSE pc' = "ordered" /\ order' = o.order /\ back_edges' = o.back
  /\ UNCHANGED <<moduleVars, todo, seen, block_target, cur, first_stack>>

\* ------------------------------------------------------------ specification
NoAnswer == [call |-> "", unit |-> None, value |-> None]

NoRun == [block_target |-> <<>>, order |-> <<>>, done |-> FALSE]

\* A code object: its instructions, the code objects among its constants and
\* the set of its flags; no closure variable, and the layout before 3.11.
Code(bc, consts, flags) ==
  [co_code |-> bc, co_consts |-> consts, co_flags |-> flags,
   co_cellvars |-> <<>>, co_freevars |-> <<>>, co_localsplusnames |-> <<>>,
   python_version |-> <<3, 10>>]

\* order_code at the top of add_pop_block_targets: block_target reset,
\* todo = [(bytecode[0], ())], or nothing to resolve for no instruction.
StartOrderCode(bc) ==
  /\ pc = IF bc = <<>> THEN "compute" ELSE "resolve"
  /\ failure = ""
  /\ todo = IF bc = <<>> THEN <<>> ELSE <<Entry(1, <<>>)>>
  /\ seen = {}
  /\ block_target = [i \in 1..Len(bc) |-> None]
  /\ cur = NoCur
  /\ first_stack = [i \in 1..Len(bc) |-> NotSeen]
  /\ blocks = <<>>
  /\ outgoing = <<>>
  /\ incoming = <<>>
  /\ order = <<>>
  /\ back_edges = {}

\* process_code on a module: the visit starts at the module's code object.
\* The same as the next state: order_code called on another bytecode, or
\* again.
CallOrderCode(bc) ==
  /\ pc' = IF bc = <<>> THEN "compute" ELSE "resolve"
  /\ failure' = ""
  /\ todo' = IF bc = <<>> THEN <<>> ELSE <<Entry(1, <<>>)>>
  /\ seen' = {}
  /\ block_target' = [i \in 1..Len(bc) |-> None]
  /\ cur' = NoCur
  /\ first_stack' = [i \in 1..Len(bc) |-> NotSeen]
  /\ blocks' = <<>>
  /\ outgoing' = <<>>
  /\ incoming' = <<>>
  /\ order' = <<>>
  /\ back_edges' = {}

StartModule(module) ==
  /\ codes = module
  /\ unit = 1
  /\ pending = <<>>
  /\ graph = {}
  /\ ordered = <<>>
  /\ answer = NoAnswer
  /\ prev_run = NoRun
  /\ StartOrderCode(module[1].co_code)

\* Every bytecode of at most MaxLen instructions, as a module of its own.
Init == \E n \in 0..MaxLen : \E bc \in Bytecodes(n) : StartModule(<<Code(bc, <<>>, {})>>)

Next == Resolve \/ compute_order

Spec == Init /\ [][Next]_vars

\* order_code once more on the bytecode it has ordered, the block targets
\* and the order of the first run kept for comparison.
Rerun ==
  /\ pc = "ordered"
  /\ ~prev_run.done
  /\ prev_run' = [block_target |-> block_target, order |-> order, done |-> TRUE]
  /\ CallOrderCode(bytecode)
  /\ UNCHANGED <<codes, unit, pending, graph, ordered, answer>>

NextDet == Next \/ Rerun

SpecDet == Init /\ [][NextDet]_vars

\* The same with the bytecodes of nested block contexts.
InitStack == Init \/ \E bc \in StackBytecodes : StartModule(<<Code(bc, <<>>, {})>>)

SpecStack == InitStack /\ [][Next]_vars

\* The same with the bytecodes of a try body and its handler.
InitTry == Init \/ \E bc \in TryBytecodes : StartModule(<<Code(bc, <<>>, {})>>)

SpecTry == InitTry /\ [][Next]_vars

\* ------------------------------------------------- OrderedCode, BlockGraph
\* The flags of loadmarshal.CodeType that OrderedCode tests, and one it does
\* not.
FlagNames ==
  {"CO_NEWLOCALS", "CO_VARARGS", "CO_VARKEYWORDS", "CO_NESTED", "CO_GENERATOR",
   "CO_COROUTINE", "CO_ITERABLE_COROUTINE", "CO_ASYNC_GENERATOR"}

\* code.python_version >= (3, 11), on tuples.
version_ge(v, w) == v[1] > w[1] \/ (v[1] = w[1] /\ v[2] >= w[2])

\* OrderedCode.__init__: the flags, the closure variables and the order of a
\* code object.  co_localsplusnames is kept from 3.11 on; before, it is None
\* and never read, and is the empty tuple here.
OrderedCode(u, c, o) ==
  [unit |-> u, co_flags |-> c.co_flags, order |-> o,
   cellvars |-> c.co_cellvars, freevars |-> c.co_freevars,
   combined_vars |-> c.co_cellvars \o c.co_freevars,
   co_localsplusnames |-> IF version_ge(c.python_version, <<3, 11>>)
                          THEN c.co_localsplusnames ELSE <<>>,
   python_version |-> c.python_version]

NoCode ==
  [unit |-> None, co_flags |-> {}, order |-> <<>>, cellvars |-> <<>>,
   freevars |-> <<>>, combined_vars |-> <<>>, co_localsplusnames |-> <<>>,
   python_version |-> <<>>]

\* An instruction as a dictionary key: Opcode objects are compared by
\* identity, so it is the code object together with the position.
Opcode(u, i) == <<u, i>>

\* next() on a code_iter without instructions raises StopIteration.
NoOpcode == <<>>

\* OrderedCode.first_opcode: the first instruction of the first block of the
\* order.
first_opcode(oc) ==
  IF oc.order = <<>> THEN NoOpcode ELSE Opcode(oc.unit, oc.order[1])

\* The flag queries, by method name.
FlagOf ==
  [has_iterable_coroutine |-> "CO_ITERABLE_COROUTINE",
   has_coroutine |-> "CO_COROUTINE",
   has_generator |-> "CO_GENERATOR",
   has_async_generator |-> "CO_ASYNC_GENERATOR",
   has_varargs |-> "CO_VARARGS",
   has_varkeywords |-> "CO_VARKEYWORDS",
   has_newlocals |-> "CO_NEWLOCALS"]

FlagQueries == DOMAIN FlagOf

\* bool(self._co_flags & flag)
has_flag(oc, q) == FlagOf[q] \in oc.co_flags

\* self._co_flags |= CO_ITERABLE_COROUTINE
set_flags_overwrite(flags) == {"CO_ITERABLE_COROUTINE"}

set_flags(flags) == flags \cup {"CO_ITERABLE_COROUTINE"}

\* BlockGraph.add: self.graph[ordered_code.first_opcode] = ordered_code
\* The graph is the set of its items <<key, code object>>.
add_by_index(g, oc) ==
  LET key == Opcode(None, first_opcode(oc)[2])
  IN  {e \in g : e[1] # key} \cup {<<key, oc.unit>>}

add(g, oc) ==
  LET key == first_opcode(oc)
  IN  {e \in g : e[1] # key} \cup {<<key, oc.unit>>}

\* The code objects among the constants of c that the visit has neither
\* visited nor queued, in the order of co_consts, each once.
RECURSIVE NewConsts(_, _)
NewConsts(consts, known) ==
  IF consts = <<>>
  THEN <<>>
  ELSE IF Head(consts) \in known
  THEN NewConsts(Tail(consts), known)
  ELSE <<Head(consts)>> \o NewConsts(Tail(consts), known \cup {Head(consts)})

SeqToSet(q) == {q[i] : i \in 1..Len(q)}

Built == {u \in 1..Len(ordered) : ordered[u] # NoCode}

\* OrderCodeVisitor.visit_code on the code object at hand, and the step of
\* pyc.visit to the next code object: order_code has ordered the blocks, the
\* OrderedCode is built and added to the block graph.
visit_code ==
  /\ pc = "ordered"
  /\ ~prev_run.done
  /\ LET oc == OrderedCode(unit, codes[unit], order)
         known == Built \cup {unit} \cup SeqToSet(pending)
         queue == NewConsts(codes[unit].co_consts, known) \o pending
     IN  /\ ordered' = [u \in 1..Len(codes) |->
                          IF u = unit THEN oc
                          ELSE IF u \in Built THEN ordered[u] ELSE NoCode]
         /\ IF first_opcode(oc) = NoOpcode
            THEN /\ pc' = "failed"
                 /\ failure' = "StopIteration"
                 /\ UNCHANGED <<graph, unit, pending, todo, seen, block_target, cur,
                                first_stack, blocks, outgoing, incoming, order,
                                back_edges>>
            ELSE /\ graph' = add(graph, oc)
                 /\ IF queue = <<>>
                    THEN /\ pc' = "done"
                         /\ UNCHANGED <<unit, pending, failure, todo, seen,
                                        block_target, cur, first_stack, blocks,
                                        outgoing, incoming, order, back_edges>>
                    ELSE /\ unit' = Head(queue)
                         /\ pending' = Tail(queue)
                         /\ CallOrderCode(codes[Head(queue)].co_code)
  /\ UNCHANGED <<codes, answer, prev_run>>

\* OrderedCode.set_iterable_coroutine on a code object of the module.
set_iterable_coroutine ==
  /\ pc = "done"
  /\ \E u \in Built :
       /\ ordered' = [ordered EXCEPT ![u].co_flags = set_flags(@)]
       /\ answer' = [call |-> "set_iterable_coroutine", unit |-> u, value |-> None]
  /\ UNCHANGED <<codes, unit, pending, graph, prev_run, pc, failure, todo, seen,
                 block_target, cur, first_stack, blocks, outgoing, incoming,
                 order, back_edges>>

\* OrderedCode.has_iterable_coroutine, has_coroutine, has_generator,
\* has_async_generator, has_varargs, has_varkeywords, has_newlocals.
has_flag_query ==
  /\ pc = "done"
  /\ \E u \in Built : \E q \in FlagQueries :
       answer' = [call |-> q, unit |-> u, value |-> has_flag(ordered[u], q)]
  /\ UNCHANGED <<codes, unit, pending, graph, ordered, prev_run, pc, failure,
                 todo, seen, block_target, cur, first_stack, blocks, outgoing,
                 incoming, order, back_edges>>

\* Bytecodes of the code objects of a module: a straight line, a try body
\* with its handler, a loop, and no instruction at all.
SampleCodes ==
  {<<[kind |-> "OP", target |-> None], [kind |-> "RETURN_VALUE", target |-> None]>>,
   <<[kind |-> "SETUP_FINALLY", target |-> 3], [kind |-> "POP_BLOCK", target |-> None],
     [kind |-> "RETURN_VALUE", target |-> None]>>,
   <<[kind |-> "SETUP_LOOP", target |-> 4], [kind |-> "CJUMP", target |-> 4],
     [kind |-> "BREAK_LOOP", target |-> None], [kind |-> "RAISE_VARARGS", target |-> None]>>,
   <<>>}

\* The tuples of at most MaxConsts code objects among S.
ConstsOver(S) == UNION {[1..k -> S] : k \in 0..MaxConsts}

\* The modules of n code objects, from code object u on: the constants of a
\* code object are code objects that come after it.
RECURSIVE ModulesFrom(_, _)
ModulesFrom(u, n) ==
  IF u > n
  THEN {<<>>}
  ELSE {<<Code(bc, consts, {})>> \o rest :
          bc \in SampleCodes, consts \in ConstsOver((u + 1)..n), rest \in ModulesFrom(u + 1, n)}

InitModule == \E n \in 1..MaxUnits : \E module \in ModulesFrom(1, n) : StartModule(module)

NextModule == Next \/ visit_code

SpecModule == InitModule /\ [][NextModule]_vars

\* A module of one code object, with any flags.
InitUnit ==
  \E bc \in SampleCodes : \E flags \in SUBSET FlagNames :
    StartModule(<<Code(bc, <<>>, flags)>>)

NextUnit == NextModule \/ set_iterable_coroutine \/ has_flag_query

SpecUnit == InitUnit /\ [][NextUnit]_vars


\* ------------------------------------------------------- closure variables
\* The names of variables, and the tuples of at most n of them.
VarNames == {"a", "b"}

NamesUpTo(n) == UNION {[1..k -> VarNames] : k \in 0..n}

\* The versions on either side of the change of layout.
Versions == {<<3, 10>>, <<3, 11>>}

\* q[arg] of a tuple, arg counted from 0; IndexError past the end.
Item(q, arg) == IF arg < Len(q) THEN q[arg + 1] ELSE "IndexError"

\* OrderedCode.get_closure_var_name
get_closure_var_name_no_offset(oc, arg) ==
  IF version_ge(oc.python_version, <<3, 11>>)
  THEN Item(oc.co_localsplusnames, arg)
  ELSE LET n_cellvars == Len(oc.cellvars)
       IN  IF arg < n_cellvars
           THEN Item(oc.cellvars, arg)
           ELSE Item(oc.freevars, arg)

get_closure_var_name(oc, arg) ==
  IF version_ge(oc.python_version, <<3, 11>>)
  THEN Item(oc.co_localsplusnames, arg)
  ELSE LET n_cellvars == Len(oc.cellvars)
       IN  IF arg < n_cellvars
           THEN Item(oc.cellvars, arg)
           ELSE Item(oc.freevars, arg - n_cellvars)

\* OrderedCode.get_cell_index: self._combined_vars.index(name), the first
\* position of name counted from 0; ValueError when name is not there.
get_cell_index(oc, name) ==
  IF name \in SeqToSet(oc.combined_vars)
  THEN Min({i \in 1..Len(oc.combined_vars) : oc.combined_vars[i] = name}) - 1
  ELSE "ValueError"

\* A call of get_closure_var_name on a code object of the module.
call_get_closure_var_name ==
  /\ pc = "done"
  /\ \E u \in Built : \E arg \in 0..(2 * MaxNames) :
       answer' = [call |-> "get_closure_var_name", unit |-> u,
                  value |-> <<arg, get_closure_var_name(ordered[u], arg)>>]
  /\ UNCHANGED <<codes, unit, pending, graph, ordered, prev_run, pc, failure,
                 todo, seen, block_target, cur, first_stack, blocks, outgoing,
                 incoming, order, back_edges>>

\* A call of get_cell_index on a code object of the module.
call_get_cell_index ==
  /\ pc = "done"
  /\ \E u \in Built : \E name \in VarNames :
       answer' = [call |-> "get_cell_index", unit |-> u,
                  value |-> <<name, get_cell_index(ordered[u], name)>>]
  /\ UNCHANGED <<codes, unit, pending, graph, ordered, prev_run, pc, failure,
                 todo, seen, block_target, cur, first_stack, blocks, outgoing,
                 incoming, order, back_edges>>

\* A module of one code object with any closure variables, any combined name
\* table and either layout.
InitClosure ==
  \E bc \in SampleCodes : \E cells, frees \in NamesUpTo(MaxNames) :
    \E locals \in NamesUpTo(MaxNames + 1) : \E v \in Versions :
      StartModule(<<[Code(bc, <<>>, {}) EXCEPT !.co_cellvars = cells,
                                              !.co_freevars = frees,
                                              !.co_localsplusnames = locals,
                                              !.python_version = v]>>)

NextClosure == NextModule \/ call_get_closure_var_name \/ call_get_cell_index

SpecClosure == InitClosure /\ [][NextClosure]_vars

\* ------------------------------------------------------------------ claims
\* compute_order has split the bytecode (it may then have failed to connect).
BlocksBuilt == pc = "ordered" \/ (pc = "failed" /\ failure = "KeyError")

RECURSIVE Flatten(_)
Flatten(bs) == IF bs = <<>> THEN <<>> ELSE Head(bs) \o Flatten(Tail(bs))

Last(b) == b[Len(b)]

\* The position of block id n in the order, 0 when it is not there.
Pos(n) == IF \E i \in 1..Len(order) : order[i] = n
          THEN CHOOSE i \in 1..Len(order) : order[i] = n
          ELSE 0

\* The blocks that a path of outgoing edges reaches from the blocks in S.
RECURSIVE ReachFrom(_)
ReachFrom(S) ==
  LET T == S \cup UNION {outgoing[u] : u \in S}
  IN  IF T = S THEN S ELSE ReachFrom(T)

\* The block holding the first instruction.
EntryBlock == CHOOSE b \in BlockIds(blocks) :
                \E i \in 1..Len(blocks) : BlockId(blocks[i]) = b /\ \E j \in 1..Len(blocks[i]) : blocks[i][j] = 1

\* C1: the blocks of _split_bytecode are non-empty and their concatenation,
\* in the order returned, is the input sequence: every instruction is in
\* exactly one block, the last instructions included.
C1_SplitPartitions ==
  BlocksBuilt =>
    /\ \A i \in 1..Len(blocks) : blocks[i] # <<>>
    /\ Flatten(blocks) = [i \in 1..Len(bytecode) |-> i]

\* C1 witness: a split into several blocks whose last block is closed only
\* because the sequence ends there.
C1_Witness ==
  /\ pc = "ordered"
  /\ Len(blocks) >= 2
  /\ Len(Last(blocks)) >= 2
  /\ bytecode[Len(bytecode)].kind = "OP"

\* C2: in every block only the last instruction has does_jump, no_next or
\* pops_block, and every explicit target and every block_target is the first
\* instruction of a block, so that every edge ends at a block's first
\* instruction and the lookup of a target never fails.
C2_BlockShape ==
  /\ failure # "KeyError"
  /\ BlocksBuilt =>
       /\ \A i \in 1..Len(blocks) : \A j \in 1..(Len(blocks[i]) - 1) :
            LET op == bytecode[blocks[i][j]]
            IN  ~does_jump(op) /\ ~no_next(op) /\ ~pops_block(op)
       /\ \A i \in 1..Len(bytecode) :
            /\ bytecode[i].target # None => bytecode[i].target \in BlockIds(blocks)
            /\ block_target[i] # None => block_target[i] \in BlockIds(blocks)
       /\ \A u \in BlockIds(blocks) : outgoing[u] \subseteq BlockIds(blocks)

\* C2 witness: a block of several instructions, a block_target, and an
\* explicit target that is neither the first instruction nor preceded by an
\* instruction that ends its block by itself.
C2_Witness ==
  /\ pc = "ordered"
  /\ \E i \in 1..Len(blocks) : Len(blocks[i]) >= 2
  /\ \E i \in 1..Len(bytecode) : block_target[i] # None
  /\ \E i \in 1..Len(bytecode) :
       /\ bytecode[i].target > 1
       /\ bytecode[bytecode[i].target - 1].kind \in {"OP", "SETUP_FINALLY", "SETUP_LOOP"}

\* C3: the order holds every block reachable from the entry block exactly
\* once and no other block, a block that is not reachable makes nothing
\* fail, and a block comes before the target of each of its edges that is
\* not a back edge.
C3_OrderReachable ==
  /\ (BlocksBuilt /\ blocks # <<>> /\ ReachFrom({EntryBlock}) # BlockIds(blocks))
       => pc = "ordered"
  /\ (pc = "ordered" /\ blocks # <<>>) =>
       /\ {order[i] : i \in 1..Len(order)} = ReachFrom({EntryBlock})
       /\ \A i, j \in 1..Len(order) : order[i] = order[j] => i = j
       /\ \A u \in ReachFrom({EntryBlock}) : \A v \in outgoing[u] :
            <<u, v>> \notin back_edges => Pos(u) < Pos(v)

\* C3 witness: an order of several blocks that leaves an unreachable block
\* out and has met a back edge.
C3_Witness ==
  /\ pc = "ordered"
  /\ Len(order) >= 2
  /\ Len(order) < Len(blocks)
  /\ back_edges # {}

\* The edges the rules give, u and v block positions in split order.
LastRules(u, v) ==
  LET last_op == Last(blocks[u])
      first_v == BlockId(blocks[v])
  IN  \/ v = u + 1 /\ ~no_next(bytecode[last_op])
      \/ bytecode[last_op].target = first_v
      \/ block_target[last_op] = first_v

FirstRule(u, v) == bytecode[BlockId(blocks[u])].target = BlockId(blocks[v])

EdgesSymmetric ==
  \A u, v \in BlockIds(blocks) : v \in outgoing[u] <=> u \in incoming[v]

Reached(kind) == cur.fresh /\ bytecode[cur.op].kind = kind

\* C6 as stated: at a POP_BLOCK the resolver fails when the block stack is
\* empty; otherwise block_target is the target of the top entry and the
\* search goes on past the instruction with that entry popped.
C6_Original ==
  Reached("POP_BLOCK") =>
    IF cur.entry_stack = <<>>
    THEN /\ pc = "failed"
         /\ failure = "POP_BLOCK without block."
         /\ block_target[cur.op] = None
    ELSE /\ block_target[cur.op] = bytecode[Top(cur.entry_stack)].target
         /\ pc = "resolve"
         /\ Top(todo) = Entry(cur.op + 1, Front(cur.entry_stack))

\* C6 amended: at a POP_BLOCK the resolver fails when the block stack is
\* empty; otherwise block_target is the target of the top entry, and the
\* search goes on at the next instruction with that entry popped when there
\* is a next instruction, and fails when the POP_BLOCK ends the bytecode.
C6_PopBlock ==
  Reached("POP_BLOCK") =>
    IF cur.entry_stack = <<>>
    THEN /\ pc = "failed"
         /\ failure = "POP_BLOCK without block."
         /\ block_target[cur.op] = None
    ELSE /\ block_target[cur.op] = bytecode[Top(cur.entry_stack)].target
         /\ cur.block_stack = Front(cur.entry_stack)
         /\ IF cur.op < Len(bytecode)
            THEN /\ pc = "resolve"
                 /\ Top(todo) = Entry(cur.op + 1, Front(cur.entry_stack))
            ELSE /\ pc = "failed"
                 /\ failure = "Bad instruction at end of bytecode"

\* C6 witness: a POP_BLOCK taken inside two contexts with different targets,
\* the search going on with the outer one alone.
C6_Witness ==
  /\ Reached("POP_BLOCK")
  /\ Len(cur.entry_stack) = 2
  /\ bytecode[cur.entry_stack[1]].target # bytecode[cur.entry_stack[2]].target
  /\ pc = "resolve"
  /\ Top(todo).block_stack = <<cur.entry_stack[1]>>

\* C7 as stated: a BREAK_LOOP taken with no SETUP_LOOP on the block stack makes
\* the resolver fail.
C7_Original ==
  (Reached("BREAK_LOOP") /\ StackOf(bytecode, cur.entry_stack, "SETUP_LOOP") = {})
    => pc = "failed"

\* C7 amended: a BREAK_LOOP taken with no SETUP_LOOP on the block stack does
\* not make the resolver fail: its block_target stays None and the block
\* stack is left as it was.
C7_BreakWithoutLoop ==
  (Reached("BREAK_LOOP") /\ StackOf(bytecode, cur.entry_stack, "SETUP_LOOP") = {})
    => /\ pc # "failed"
       /\ failure = ""
       /\ block_target[cur.op] = None
       /\ cur.block_stack = cur.entry_stack

\* C7 witness: a BREAK_LOOP taken inside an exception handler setup and no
\* loop, after which the resolver goes on with the rest of its worklist.
C7_Witness ==
  /\ Reached("BREAK_LOOP")
  /\ cur.entry_stack # <<>>
  /\ StackOf(bytecode, cur.entry_stack, "SETUP_LOOP") = {}
  /\ pc = "resolve"

\* The id of the block that holds instruction i.
BlockOf(i) ==
  BlockId(blocks[CHOOSE k \in 1..Len(blocks) : \E j \in 1..Len(blocks[k]) : blocks[k][j] = i])

\* Instructions s..p are a try body: s a SETUP_FINALLY, p a POP_BLOCK that the
\* resolver took with s on top of the block stack, the handler, the target of
\* s, lies after p, and no jump in s..p has the handler as its explicit target.
TryBody(s, p) ==
  /\ s < p
  /\ bytecode[s].target > p
  /\ bytecode[s].kind = "SETUP_FINALLY"
  /\ bytecode[p].kind = "POP_BLOCK"
  /\ first_stack[p] # NotSeen
  /\ first_stack[p] # <<>>
  /\ Top(first_stack[p]) = s
  /\ \A i \in s..p : does_jump(bytecode[i]) => bytecode[i].target # bytecode[s].target

\* The handler is resolved and connected: P.block_target = H and the block
\* ending in P has an edge to the block starting at H.
HandlerConnected(s, p) ==
  LET H == bytecode[s].target
  IN  /\ block_target[p] = H
      /\ H \in BlockIds(blocks)
      /\ H \in outgoing[BlockOf(p)]
      /\ BlockOf(p) \in incoming[H]

RECURSIVE ConstsReach(_)
ConstsReach(S) ==
  LET T == S \cup UNION {SeqToSet(codes[u].co_consts) : u \in S}
  IN  IF T = S THEN S ELSE ConstsReach(T)

\* C8: after process_code the block graph holds one entry for every code
\* object that constants reach from the module's code object, and no other
\* entry; the key of an entry is the first instruction of its code object.
C8_GraphComplete ==
  pc = "done" => graph = {<<Opcode(u, 1), u>> : u \in ConstsReach({1})}

\* C8 witness: a module of three code objects, one of them a constant of
\* both others and two of them with the same instructions, all in the graph.
C8_Witness ==
  /\ pc = "done"
  /\ Cardinality(graph) = 3
  /\ 3 \in SeqToSet(codes[1].co_consts)
  /\ 3 \in SeqToSet(codes[2].co_consts)
  /\ codes[2].co_code = codes[3].co_code

\* The call that has just returned is set_iterable_coroutine on u.
Upgraded(u) == answer'.call = "set_iterable_coroutine" /\ answer'.unit = u

\* C9: the flags of an OrderedCode change only in set_iterable_coroutine,
\* after which has_iterable_coroutine is true and every other flag query
\* answers as before; a code object built with the generator flag alone
\* answers has_generator with true, has_coroutine with false, and
\* has_iterable_coroutine with true once it is upgraded and false before.
C9_FlagsFrame ==
  /\ [][\A u \in Built :
          /\ ordered'[u].co_flags # ordered[u].co_flags => Upgraded(u)
          /\ Upgraded(u) =>
               /\ has_flag(ordered'[u], "has_iterable_coroutine")
               /\ \A q \in FlagQueries \ {"has_iterable_coroutine"} :
                    has_flag(ordered'[u], q) = has_flag(ordered[u], q)]_vars
  /\ [](\A u \in Built :
          (codes[u].co_flags = {"CO_GENERATOR"} /\ answer.unit = u) =>
            /\ answer.call = "has_generator" => answer.value = TRUE
            /\ answer.call = "has_coroutine" => answer.value = FALSE
            /\ answer.call = "has_iterable_coroutine" =>
                 answer.value = (ordered[u].co_flags # codes[u].co_flags))

\* C9 witness: a code object built with the generator flag alone answers
\* has_iterable_coroutine with true, so that it has been upgraded.
C9_Witness ==
  /\ pc = "done"
  /\ codes[1].co_flags = {"CO_GENERATOR"}
  /\ answer = [call |-> "has_iterable_coroutine", unit |-> 1, value |-> TRUE]

\* The position on the entry block stack of the innermost SETUP_LOOP.
InnermostLoop == Max(StackOf(bytecode, cur.entry_stack, "SETUP_LOOP"))

\* The last iteration took a BREAK_LOOP for the first time, with a SETUP_LOOP
\* on its block stack.
BreakInLoop ==
  Reached("BREAK_LOOP") /\ StackOf(bytecode, cur.entry_stack, "SETUP_LOOP") # {}

\* C11 as stated: at a BREAK_LOOP with a SETUP_LOOP on the block stack,
\* block_target is the target of the innermost SETUP_LOOP and the search goes
\* on from that target with the entries below that SETUP_LOOP.
C11_Original ==
  BreakInLoop =>
    LET t == bytecode[cur.entry_stack[InnermostLoop]].target
    IN  /\ block_target[cur.op] = t
        /\ pc = "resolve"
        /\ Top(todo) = Entry(t, SubSeq(cur.entry_stack, 1, InnermostLoop - 1))

\* C11 amended: at a BREAK_LOOP with a SETUP_LOOP on the block stack,
\* block_target is the target of the innermost SETUP_LOOP; when that target
\* is another instruction the search goes on from it with the entries below
\* that SETUP_LOOP, and when it is the BREAK_LOOP itself the resolver fails.
C11_BreakLoop ==
  BreakInLoop =>
    LET t == bytecode[cur.entry_stack[InnermostLoop]].target
    IN  /\ block_target[cur.op] = t
        /\ IF t # cur.op
           THEN /\ pc = "resolve"
                /\ failure = ""
                /\ Top(todo) = Entry(t, SubSeq(cur.entry_stack, 1, InnermostLoop - 1))
           ELSE /\ pc = "failed"
                /\ failure = "assert b.target != op"

\* C11 witness: a BREAK_LOOP inside two loops with different targets and a
\* handler nested in the inner loop; the search goes on from the inner
\* loop's target with the outer loop alone on the block stack.
C11_Witness ==
  /\ BreakInLoop
  /\ Len(cur.entry_stack) = 3
  /\ StackOf(bytecode, cur.entry_stack, "SETUP_LOOP") = {1, 2}
  /\ bytecode[cur.entry_stack[1]].target # bytecode[cur.entry_stack[2]].target
  /\ pc = "resolve"
  /\ Top(todo).block_stack = <<cur.entry_stack[1]>>

\* The positions of the SETUP_FINALLY entries of the block stack with which
\* the last iteration took its instruction.
Handlers == StackOf(bytecode, cur.entry_stack, "SETUP_FINALLY")

\* C12: at a RAISE_VARARGS, block_target is the target of the innermost
\* SETUP_FINALLY of the block stack with which the instruction was first
\* taken, and None when that stack holds no SETUP_FINALLY; the resolver does
\* not fail there.  That stack holds a SETUP_FINALLY only on the way through
\* its body: the SETUP_FINALLY queues its target with the block stack it was
\* reached with, and the next instruction with itself pushed.
C12_RaiseTarget ==
  /\ Reached("RAISE_VARARGS") =>
       /\ failure = ""
       /\ pc # "failed"
       /\ cur.block_stack = cur.entry_stack
       /\ first_stack[cur.op] = cur.entry_stack
       /\ block_target[cur.op] =
            IF Handlers = {} THEN None
            ELSE bytecode[cur.entry_stack[Max(Handlers)]].target
  /\ (Reached("SETUP_FINALLY") /\ cur.op < Len(bytecode)) =>
       /\ pc = "resolve"
       /\ Len(todo) >= 2
       /\ todo[Len(todo) - 1] = Entry(bytecode[cur.op].target, cur.entry_stack)
       /\ Top(todo) = Entry(cur.op + 1, Append(cur.entry_stack, cur.op))

\* C12 witness: a RAISE_VARARGS inside two handlers with different targets
\* and a loop nested in the inner one, resolved to the inner handler.
C12_Witness ==
  /\ Reached("RAISE_VARARGS")
  /\ Len(cur.entry_stack) = 3
  /\ Handlers = {1, 2}
  /\ bytecode[cur.entry_stack[1]].target # bytecode[cur.entry_stack[2]].target
  /\ block_target[cur.op] = bytecode[cur.entry_stack[2]].target

\* C13 as stated: for every name among the cell and free variables of an
\* OrderedCode, get_closure_var_name(get_cell_index(name)) is that name, in
\* either layout.
C13_Original ==
  \A u \in Built : \A name \in SeqToSet(ordered[u].combined_vars) :
    get_closure_var_name(ordered[u], get_cell_index(ordered[u], name)) = name

\* C13 amended: get_cell_index(name) is the first position of name in
\* cellvars + freevars.  With the separate tables (before 3.11)
\* get_closure_var_name of that index is the name.  With the combined table
\* (from 3.11 on) it is the entry of co_localsplusnames at that index, which
\* is the name exactly when co_localsplusnames holds the name there, and is
\* another name or an IndexError otherwise.
C13_ClosureRoundTrip ==
  \A u \in Built : \A name \in SeqToSet(ordered[u].combined_vars) :
    LET oc == ordered[u]
        i == get_cell_index(oc, name)
        back == get_closure_var_name(oc, i)
    IN  /\ i \in 0..(Len(oc.combined_vars) - 1)
        /\ oc.combined_vars[i + 1] = name
        /\ \A j \in 1..i : oc.combined_vars[j] # name
        /\ ~version_ge(oc.python_version, <<3, 11>>) => back = name
        /\ version_ge(oc.python_version, <<3, 11>>) =>
             (back = name <=> (i < Len(oc.co_localsplusnames)
                                 /\ oc.co_localsplusnames[i + 1] = name))

\* C13 witness: with the separate tables, get_closure_var_name has returned a
\* free variable for the index that get_cell_index gives it, past the cell
\* variables, the name not being the first entry of either table.
C13_Witness ==
  /\ pc = "done"
  /\ answer.call = "get_closure_var_name"
  /\ LET oc == ordered[answer.unit]
     IN  /\ ~version_ge(oc.python_version, <<3, 11>>)
         /\ Len(oc.cellvars) = 2
         /\ Len(oc.freevars) = 2
         /\ answer.value[2] \in SeqToSet(oc.combined_vars)
         /\ answer.value[1] = get_cell_index(oc, answer.value[2])
         /\ answer.value[1] = Len(oc.cellvars) + 1

====
